---- MODULE Spec2Model ----
(***************************************************************************)
(* Model of upload.py: the resumable chunked upload of one file to a       *)
(* Glacier multipart upload.  A behaviour is a sequence of process runs    *)
(* over the same file: one fresh run and, after a run that left a dump     *)
(* file, runs started with --resume-from-err on one of the dump files.     *)
(*                                                                         *)
(* A run of bytes of the file is a record [off, len]: the len bytes that    *)
(* the file holds from offset off on.  A byte is identified by its offset, *)
(* so two payloads are equal exactly when they are the same bytes of the   *)
(* file.                                                                   *)
(***************************************************************************)
EXTENDS Integers, Sequences, FiniteSets

\* ---------------------------------------------------------------- bounds
MaxFileMiB == 10       \* the file has 0 .. MaxFileMiB whole MiB, plus a tail
MaxResumes == 2        \* runs started with --resume-from-err
MaxChunkArg == 5000    \* --chunk-size values up to this are validated
MaxNegArg == 2         \* --chunk-size values down to -MaxNegArg are validated
MaxLiveResumes == 1    \* resumed runs in the behaviours checked for termination

\* ------------------------------------------------------ program constants
MiB == 1048576
DefaultChunkSizeMb == 128
MinChunkSizeMb == 1
MaxChunkSizeMb == 4096

\* the tails (in bytes) added to a whole number of MiB
FileTails == {0, 1}
FileSizes == {q * MiB + r : q \in 0..MaxFileMiB, r \in FileTails}
\* the values of --chunk-size the model runs with
ChunkSizesMb == {2, 4}
\* values of --chunk-size that are not legal
IllegalSizesMb == {0, 3, 5000}

\* args.chunk_size_mb after parser.parse_args(): the one-element list of the
\* flag, or the int default
FlagArg(n) == [is_list |-> TRUE, size |-> n]
DefaultArg == [is_list |-> FALSE, size |-> DefaultChunkSizeMb]
Args == {DefaultArg} \cup {FlagArg(n) : n \in ChunkSizesMb \cup IllegalSizesMb}

VARIABLES
    pc,              \* position of the running process
    file_size,       \* os.path.getsize of the file to upload
    err,             \* self.err
    chunk_size_mb,   \* self.chunk_size_mb
    chunk_size,      \* self.chunk_size
    chunks,          \* self.chunks
    file,            \* self.file: [open, pos]
    cur_chunk,       \* self.cur_chunk
    cur_byte,        \* self.cur_byte
    cur_byte_end,    \* self.cur_byte_end
    cur_part_data,   \* self.cur_part_data
    upload_obj,      \* self.upload_obj
    part_checksums,  \* self.part_checksums, a dict in insertion order
    bytes_read,      \* local of start_upload
    pending,         \* the exception caught by the except clause
    raised,          \* the exception that left the process
    dumps,           \* the dump-* files of the working directory
    initiated,       \* number of initiate_multipart_upload calls answered
    parts,           \* upload_part calls answered with a checksum
    completed,       \* complete calls answered
    resumes,         \* number of runs started with --resume-from-err
    loaded,          \* index in dumps of the file this run was loaded from
    pre_dump,        \* for each dump file, the job fields when it was written
    run_parts,       \* number of upload_part calls answered in this run
    consumed,        \* indexes in dumps of the files a run was started on
    dumps_before,    \* number of dump files when this run started
    args,            \* args.chunk_size_mb as argparse leaves it: [is_list, size]
    attempts         \* the chunk indexes upload_part was called for in this run

vars == <<pc, file_size, err, chunk_size_mb, chunk_size, chunks, file,
          cur_chunk, cur_byte, cur_byte_end, cur_part_data, upload_obj,
          part_checksums, bytes_read, pending, raised, dumps, initiated,
          parts, completed, resumes, loaded, pre_dump, run_parts, consumed,
          dumps_before, args, attempts>>

\* ---------------------------------------------------------------- helpers
Min(a, b) == IF a <= b THEN a ELSE b

\* math.ceil(a / b), for b > 0
Ceil(a, b) == (a + b - 1) \div b

\* dictionary keys: a Python int n, or the str of a decimal numeral.  The
\* numeral is held as the number it writes, str(n) is one to one.
IntKey(n) == [t |-> "int", n |-> n]
StrKey(n) == [t |-> "str", n |-> n]

\* a dict is the sequence of its items [k, v] in insertion order
RECURSIVE DictHas(_, _)
DictHas(d, k) ==
    IF d = <<>> THEN FALSE
    ELSE IF Head(d).k = k THEN TRUE ELSE DictHas(Tail(d), k)

\* d[k] = v : an existing key keeps its place, a new one goes last
DictSet(d, k, v) ==
    IF DictHas(d, k)
    THEN [i \in 1..Len(d) |-> IF d[i].k = k THEN [k |-> k, v |-> v] ELSE d[i]]
    ELSE Append(d, [k |-> k, v |-> v])

DictKeys(d) == {d[i].k : i \in 1..Len(d)}

\* json: the key of an object member is a string; an int key is written as
\* its decimal numeral
JsonKey(k) == StrKey(k.n)

\* json.dump of a dict: one member per item, in order, keys as strings
JsonDumpDict(d) == [i \in 1..Len(d) |-> [k |-> JsonKey(d[i].k), v |-> d[i].v]]

\* json.load of an object: the members are inserted one after the other
RECURSIVE JsonLoadAcc(_, _)
JsonLoadAcc(acc, members) ==
    IF members = <<>> THEN acc
    ELSE JsonLoadAcc(DictSet(acc, Head(members).k, Head(members).v),
                     Tail(members))
JsonLoadDict(members) == JsonLoadAcc(<<>>, members)

\* the checksum the service answers for a payload
Checksum(body) == [tree_hash_of |-> body]

NoData == [off |-> 0, len |-> 0]
NoUpload == [account_id |-> "", vault_name |-> "", id |-> 0]

\* ------------------------------------------------------------------- Init
\* a process that has not run yet, in a working directory with no dump file
InitJob ==
    /\ pc = "parse_args"
    /\ chunk_size_mb = 0
    /\ err = FALSE
    /\ chunk_size = 0
    /\ chunks = 0
    /\ file = [open |-> FALSE, pos |-> 0]
    /\ cur_chunk = 0
    /\ cur_byte = 0
    /\ cur_byte_end = 0
    /\ cur_part_data = NoData
    /\ upload_obj = NoUpload
    /\ part_checksums = <<>>
    /\ bytes_read = 0
    /\ pending = "none"
    /\ raised = "none"
    /\ dumps = <<>>
    /\ initiated = 0
    /\ parts = <<>>
    /\ completed = <<>>
    /\ resumes = 0
    /\ loaded = 0
    /\ pre_dump = <<>>
    /\ run_parts = 0
    /\ consumed = {}
    /\ dumps_before = 0
    /\ attempts = <<>>

Init ==
    /\ InitJob
    /\ file_size \in FileSizes
    /\ args \in Args

\* ------------------------------------------------------------- parse_args
RECURSIVE BitAnd(_, _)
\* a & b, for a, b >= 0
BitAnd(a, b) ==
    IF a = 0 \/ b = 0 THEN 0
    ELSE (a % 2) * (b % 2) + 2 * BitAnd(a \div 2, b \div 2)

\* a validation that leaves out the power-of-two test
ValidateChunkSizeRangeOnly(size) ==
    IF size < 1 \/ size > 4096
    THEN [ok |-> FALSE, value |-> size, error |-> "ValueError"]
    ELSE [ok |-> TRUE, value |-> size, error |-> "none"]

\* validate_chunk_size: the value returned, or the error raised
ValidateChunkSize(size) ==
    IF size < 1 \/ size > 4096
    THEN [ok |-> FALSE, value |-> size, error |-> "ValueError"]
    ELSE IF size = 0 \/ BitAnd(size, size - 1) # 0
    THEN [ok |-> FALSE, value |-> size, error |-> "ValueError"]
    ELSE [ok |-> TRUE, value |-> size, error |-> "none"]

\* lines 165-173: the flag is validated when it was given, parse_args returns
ParseArgsOk ==
    /\ pc = "parse_args"
    /\ IF args.is_list
       THEN /\ ValidateChunkSize(args.size).ok
            /\ chunk_size_mb' = ValidateChunkSize(args.size).value
       ELSE chunk_size_mb' = args.size
    /\ pc' = "init"
    /\ UNCHANGED <<file_size, args, attempts, err, chunk_size, chunks, file, cur_chunk,
                   cur_byte, cur_byte_end, cur_part_data, upload_obj,
                   part_checksums, bytes_read, pending, raised, dumps,
                   initiated, parts, completed, resumes, loaded, pre_dump,
                   run_parts, consumed, dumps_before>>

\* line 171: validate_chunk_size raises, the process ends
ParseArgsFail ==
    /\ pc = "parse_args"
    /\ args.is_list
    /\ ~ValidateChunkSize(args.size).ok
    /\ raised' = ValidateChunkSize(args.size).error
    /\ pc' = "exit"
    /\ UNCHANGED <<file_size, args, attempts, err, chunk_size_mb, chunk_size, chunks,
                   file, cur_chunk, cur_byte, cur_byte_end, cur_part_data,
                   upload_obj, part_checksums, bytes_read, pending, dumps,
                   initiated, parts, completed, resumes, loaded, pre_dump,
                   run_parts, consumed, dumps_before>>

\* ------------------------------------------------------- Upload.__init__
\* the fresh branch
UploadInitFresh ==
    /\ pc = "init"
    /\ err' = FALSE
    /\ chunk_size' = 1048576 * chunk_size_mb
    /\ chunks' = Ceil(file_size, 1048576 * chunk_size_mb)
    /\ file' = [open |-> TRUE, pos |-> 0]
    /\ cur_chunk' = 0
    /\ cur_byte' = 0
    /\ cur_byte_end' = 0
    /\ cur_part_data' = NoData
    /\ upload_obj' = NoUpload
    /\ part_checksums' = <<>>
    /\ pc' = "request_upload"
    /\ dumps_before' = Len(dumps)
    /\ UNCHANGED <<file_size, args, attempts, consumed, chunk_size_mb, bytes_read, pending, raised,
                   dumps, initiated, parts, completed, resumes, loaded,
                   pre_dump, run_parts>>

\* where open(self.file_path, 'rb') leaves the stream in the resume branch
ResumeFilePos(data) == 0

\* the resume branch, in a new process started on dump file i.  A dump file
\* is the input of one resumed run: the operator does not start a second
\* run on a file that a run was started on before.  The process is started
\* without --chunk-size; the resume branch does not read the flag.
UploadInitResume(i) ==
    /\ pc = "exit"
    /\ resumes < MaxResumes
    /\ i \in DOMAIN dumps
    /\ i \notin consumed
    /\ consumed' = consumed \cup {i}
    /\ dumps_before' = Len(dumps)
    /\ LET data == dumps[i] IN
        /\ err' = TRUE
        /\ chunk_size_mb' = data.chunk_size_mb
        /\ chunk_size' = 1048576 * data.chunk_size_mb
        /\ chunks' = Ceil(file_size, 1048576 * data.chunk_size_mb)
        /\ file' = [open |-> TRUE, pos |-> ResumeFilePos(data)]
        /\ cur_chunk' = data.cur_chunk
        /\ cur_byte' = data.cur_byte
        /\ upload_obj' = [account_id |-> data.account_id,
                          vault_name |-> data.vault_name,
                          id |-> data.upload_id]
        /\ part_checksums' = JsonLoadDict(data.part_checksums)
    /\ resumes' = resumes + 1
    /\ loaded' = i
    /\ run_parts' = 0
    /\ bytes_read' = 0
    /\ pending' = "none"
    /\ raised' = "none"
    /\ cur_byte_end' = 0
    /\ cur_part_data' = NoData
    /\ pc' = "request_upload"
    /\ args' = DefaultArg
    /\ attempts' = <<>>
    /\ UNCHANGED <<file_size, dumps, initiated, parts, completed, pre_dump>>

\* --------------------------------------------------- Upload.request_upload
\* a request_upload that initiates a session in a resumed run too
MustInitiateAlways(e) == TRUE

\* line 87: the test that guards the initiation
MustInitiate(e) == ~e

RequestUploadOk ==
    /\ pc = "request_upload"
    /\ IF MustInitiate(err)
       THEN /\ initiated' = initiated + 1
            /\ upload_obj' = [account_id |-> "account", vault_name |-> "vault",
                              id |-> initiated + 1]
       ELSE UNCHANGED <<initiated, upload_obj>>
    /\ pc' = "start_upload"
    /\ UNCHANGED <<file_size, args, attempts, consumed, dumps_before, err, chunk_size_mb, chunk_size, chunks, file,
                   cur_chunk, cur_byte, cur_byte_end, cur_part_data,
                   part_checksums, bytes_read, pending, raised, dumps, parts,
                   completed, resumes, loaded, pre_dump, run_parts>>

\* initiate_multipart_upload or get_caller_identity raises
RequestUploadFail ==
    /\ pc = "request_upload"
    /\ MustInitiate(err)
    /\ raised' = "InitiateError"
    /\ pc' = "exit"
    /\ UNCHANGED <<file_size, args, attempts, consumed, dumps_before, err, chunk_size_mb, chunk_size, chunks, file,
                   cur_chunk, cur_byte, cur_byte_end, cur_part_data,
                   upload_obj, part_checksums, bytes_read, pending, dumps,
                   initiated, parts, completed, resumes, loaded, pre_dump,
                   run_parts>>

\* ------------------------------------------------ Upload._get_current_chunk
\* a read that returns nothing when fewer than n bytes are left
ReadLenWholeOnly(pos, n, size) == IF size - pos >= n THEN n ELSE 0

\* len(self.file.read(n)) for a stream at pos of a file of size bytes
ReadLen(pos, n, size) == Min(n, size - pos)

\* an end offset one past the last byte
ByteEndExclusive(cb, br) == cb + br

\* self.cur_byte_end after a read of br bytes
ByteEnd(cb, br) == cb + br - 1

\* self.cur_chunk after a read that returned data
ChunkAfterRead(cc) == cc + 1

\* the whole of _get_current_chunk when the read returns
GetCurrentChunk ==
    LET n == ReadLen(file.pos, chunk_size, file_size) IN
    /\ cur_part_data' = [off |-> IF n = 0 THEN 0 ELSE file.pos, len |-> n]
    /\ file' = [file EXCEPT !.pos = file.pos + n]
    /\ IF n = 0
       THEN UNCHANGED <<cur_byte_end, cur_chunk>>
       ELSE /\ cur_byte_end' = ByteEnd(cur_byte, n)
            /\ cur_chunk' = ChunkAfterRead(cur_chunk)
    /\ bytes_read' = n

\* ----------------------------------------------------- Upload.start_upload
\* line 103: the first read, before the try statement
FirstReadOk ==
    /\ pc = "start_upload"
    /\ GetCurrentChunk
    /\ pc' = "loop"
    /\ UNCHANGED <<file_size, args, attempts, consumed, dumps_before, err, chunk_size_mb, chunk_size, chunks,
                   cur_byte, upload_obj, part_checksums, pending, raised,
                   dumps, initiated, parts, completed, resumes, loaded,
                   pre_dump, run_parts>>

\* the exception the first read leaves start_upload with
FirstReadRaise == "IOError"

\* line 103: self.file.read raises; no handler is in force
FirstReadFail ==
    /\ pc = "start_upload"
    /\ raised' = FirstReadRaise
    /\ pc' = "exit"
    /\ UNCHANGED <<file_size, args, attempts, consumed, dumps_before, err, chunk_size_mb, chunk_size, chunks, file,
                   cur_chunk, cur_byte, cur_byte_end, cur_part_data,
                   upload_obj, part_checksums, bytes_read, pending, dumps,
                   initiated, parts, completed, resumes, loaded, pre_dump,
                   run_parts>>

\* the key the checksum of the current part is stored under
ChecksumKey(cc) == IntKey(cc)

\* self.cur_byte after the part was answered
ByteAfterPart(cb, br) == cb + br

\* lines 105-110: the loop test holds, upload_part answers
UploadPartOk ==
    /\ pc = "loop"
    /\ bytes_read # 0
    /\ LET checksum == Checksum(cur_part_data) IN
        /\ parts' = Append(parts, [upload_id |-> upload_obj.id,
                                   range_start |-> cur_byte,
                                   range_end |-> cur_byte_end,
                                   body |-> cur_part_data,
                                   checksum |-> checksum,
                                   run |-> resumes])
        /\ part_checksums' = DictSet(part_checksums, ChecksumKey(cur_chunk),
                                     checksum)
    /\ cur_byte' = ByteAfterPart(cur_byte, bytes_read)
    /\ run_parts' = run_parts + 1
    /\ attempts' = Append(attempts, cur_chunk)
    /\ pc' = "next_chunk"
    /\ UNCHANGED <<file_size, args, consumed, dumps_before, err, chunk_size_mb, chunk_size, chunks, file,
                   cur_chunk, cur_byte_end, cur_part_data, upload_obj,
                   bytes_read, pending, raised, dumps, initiated, completed,
                   resumes, loaded, pre_dump>>

\* an upload_part error that has the loop call upload_part again
UploadErrorRetry == "loop"

\* where control goes when upload_part raises: the except clause of line 122
UploadErrorTarget == "except"

\* line 107: upload_part raises
UploadPartFail ==
    /\ pc = "loop"
    /\ bytes_read # 0
    /\ pending' = "RemoteError"
    /\ attempts' = Append(attempts, cur_chunk)
    /\ pc' = UploadErrorTarget
    /\ UNCHANGED <<file_size, args, consumed, dumps_before, err, chunk_size_mb, chunk_size, chunks, file,
                   cur_chunk, cur_byte, cur_byte_end, cur_part_data,
                   upload_obj, part_checksums, bytes_read, raised, dumps,
                   initiated, parts, completed, resumes, loaded, pre_dump,
                   run_parts>>

\* line 120: the read of the next chunk, inside the try statement
NextReadOk ==
    /\ pc = "next_chunk"
    /\ GetCurrentChunk
    /\ pc' = "loop"
    /\ UNCHANGED <<file_size, args, attempts, consumed, dumps_before, err, chunk_size_mb, chunk_size, chunks,
                   cur_byte, upload_obj, part_checksums, pending, raised,
                   dumps, initiated, parts, completed, resumes, loaded,
                   pre_dump, run_parts>>

\* line 120: self.file.read raises
NextReadFail ==
    /\ pc = "next_chunk"
    /\ pending' = "IOError"
    /\ pc' = "except"
    /\ UNCHANGED <<file_size, args, attempts, consumed, dumps_before, err, chunk_size_mb, chunk_size, chunks, file,
                   cur_chunk, cur_byte, cur_byte_end, cur_part_data,
                   upload_obj, part_checksums, bytes_read, raised, dumps,
                   initiated, parts, completed, resumes, loaded, pre_dump,
                   run_parts>>

\* lines 105, 127: the loop test fails, the file is closed
LoopEnd ==
    /\ pc = "loop"
    /\ bytes_read = 0
    /\ file' = [file EXCEPT !.open = FALSE]
    /\ pc' = "finish_upload"
    /\ UNCHANGED <<file_size, args, attempts, consumed, dumps_before, err, chunk_size_mb, chunk_size, chunks,
                   cur_chunk, cur_byte, cur_byte_end, cur_part_data,
                   upload_obj, part_checksums, bytes_read, pending, raised,
                   dumps, initiated, parts, completed, resumes, loaded,
                   pre_dump, run_parts>>

\* ------------------------------------------------------ Upload._dump_state
\* the dict that _dump_state builds, as json.dump writes it
DumpState ==
    [account_id |-> upload_obj.account_id,
     vault_name |-> upload_obj.vault_name,
     upload_id |-> upload_obj.id,
     cur_chunk |-> cur_chunk,
     cur_byte |-> cur_byte,
     file_path |-> "file",
     chunk_size_mb |-> chunk_size_mb,
     part_checksums |-> JsonDumpDict(part_checksums)]

\* a dump under one fixed name: the file of the dump before is written over
DumpFilesOverwrite(files, state) ==
    IF files = <<>> THEN <<state>> ELSE [files EXCEPT ![Len(files)] = state]

\* the working directory after NamedTemporaryFile(delete=False) and json.dump:
\* the file is created under a name that no file of the directory has
DumpFiles(files, state) == Append(files, state)

\* the exception that leaves the except clause when _dump_state raised
\* while e was being handled
DumpFailRaise(e) == "DumpError"

\* an except clause that does not raise e again: main goes on
ExceptFallThrough == "finish_upload"

\* where control goes from line 125: raise e ends start_upload and main
ExceptTarget == "exit"

\* lines 122-125: _dump_state returns, the file is closed, e is raised again
ExceptDumpOk ==
    /\ pc = "except"
    /\ dumps' = DumpFiles(dumps, DumpState)
    /\ pre_dump' = Append(pre_dump, [cur_chunk |-> cur_chunk,
                                     cur_byte |-> cur_byte,
                                     part_checksums |-> part_checksums,
                                     pending |-> pending,
                                     acked |-> Len(parts),
                                     run_parts |-> run_parts,
                                     run |-> resumes])
    /\ file' = [file EXCEPT !.open = FALSE]
    /\ raised' = pending
    /\ pc' = ExceptTarget
    /\ UNCHANGED <<file_size, args, attempts, consumed, dumps_before, err, chunk_size_mb, chunk_size, chunks,
                   cur_chunk, cur_byte, cur_byte_end, cur_part_data,
                   upload_obj, part_checksums, bytes_read, pending,
                   initiated, parts, completed, resumes, loaded, run_parts>>

\* line 123: _dump_state raises (the temporary file cannot be created or
\* written); lines 124-125 are not reached
ExceptDumpFail ==
    /\ pc = "except"
    /\ raised' = DumpFailRaise(pending)
    /\ pc' = "exit"
    /\ UNCHANGED <<file_size, args, attempts, consumed, dumps_before, err, chunk_size_mb, chunk_size, chunks, file,
                   cur_chunk, cur_byte, cur_byte_end, cur_part_data,
                   upload_obj, part_checksums, bytes_read, pending, dumps,
                   initiated, parts, completed, resumes, loaded, pre_dump,
                   run_parts>>

\* ---------------------------------------------------- Upload.finish_upload
\* a finish_upload that dumps the state
FinishDumpFilesAlways(files) == Append(files, DumpState)

\* the working directory after finish_upload
FinishDumpFiles(files) == files

FinishUploadOk ==
    /\ pc = "finish_upload"
    /\ completed' = Append(completed, [upload_id |-> upload_obj.id,
                                       archiveSize |-> file_size,
                                       run |-> resumes])
    /\ dumps' = FinishDumpFiles(dumps)
    /\ raised' = "none"
    /\ pc' = "exit"
    /\ UNCHANGED <<file_size, args, attempts, consumed, dumps_before, err, chunk_size_mb, chunk_size, chunks, file,
                   cur_chunk, cur_byte, cur_byte_end, cur_part_data,
                   upload_obj, part_checksums, bytes_read, pending,
                   initiated, parts, resumes, loaded, pre_dump, run_parts>>

\* calculate_tree_hash or complete raises
FinishUploadFail ==
    /\ pc = "finish_upload"
    /\ raised' = "CompleteError"
    /\ dumps' = FinishDumpFiles(dumps)
    /\ pc' = "exit"
    /\ UNCHANGED <<file_size, args, attempts, consumed, dumps_before, err, chunk_size_mb, chunk_size, chunks, file,
                   cur_chunk, cur_byte, cur_byte_end, cur_part_data,
                   upload_obj, part_checksums, bytes_read, pending,
                   initiated, parts, completed, resumes, loaded, pre_dump,
                   run_parts>>

Next ==
    \/ ParseArgsOk
    \/ ParseArgsFail
    \/ UploadInitFresh
    \/ \E i \in 1..Len(dumps) : UploadInitResume(i)
    \/ RequestUploadOk
    \/ RequestUploadFail
    \/ FirstReadOk
    \/ FirstReadFail
    \/ UploadPartOk
    \/ UploadPartFail
    \/ NextReadOk
    \/ NextReadFail
    \/ LoopEnd
    \/ ExceptDumpOk
    \/ ExceptDumpFail
    \/ FinishUploadOk
    \/ FinishUploadFail

Spec == Init /\ [][Next]_vars

\* the steps of a process that was started: every call it makes returns or
\* raises.  Starting a resumed run is up to the operator.
RunStep ==
    \/ ParseArgsOk
    \/ ParseArgsFail
    \/ UploadInitFresh
    \/ RequestUploadOk
    \/ RequestUploadFail
    \/ FirstReadOk
    \/ FirstReadFail
    \/ UploadPartOk
    \/ UploadPartFail
    \/ NextReadOk
    \/ NextReadFail
    \/ LoopEnd
    \/ ExceptDumpOk
    \/ ExceptDumpFail
    \/ FinishUploadOk
    \/ FinishUploadFail

\* a resumed run is started on dump file i, at most MaxLiveResumes times
ResumeStep ==
    \E i \in 1..Len(dumps) : resumes < MaxLiveResumes /\ UploadInitResume(i)

NextLive == RunStep \/ ResumeStep

SpecLive == Init /\ [][NextLive]_vars /\ WF_vars(RunStep)

\* validate_chunk_size alone, over every flag value of -MaxNegArg..MaxChunkArg
InitValidate ==
    /\ InitJob
    /\ file_size = 0
    /\ args \in {FlagArg(n) : n \in (0 - MaxNegArg)..MaxChunkArg}

NextValidate ==
    \/ ParseArgsOk
    \/ ParseArgsFail

SpecValidate == InitValidate /\ [][NextValidate]_vars

\* the chunk_size_mb of a dump file that the operator names on the command
\* line: the resume branch reads the file with json.load, whoever wrote it
RecordChunkSizesMb == {3, 4}

\* a dump file of a session with no part acknowledged
RecordFile(mb) ==
    [account_id |-> "account", vault_name |-> "vault", upload_id |-> 1,
     cur_chunk |-> 0, cur_byte |-> 0, file_path |-> "file",
     chunk_size_mb |-> mb, part_checksums |-> <<>>]

\* no process is running and the working directory holds one dump file, to
\* be named with --resume-from-err
RecordStart ==
    /\ \E mb \in RecordChunkSizesMb :
          /\ dumps = <<RecordFile(mb)>>
          /\ pre_dump = <<[cur_chunk |-> 0, cur_byte |-> 0,
                           part_checksums |-> <<>>, pending |-> "RemoteError",
                           acked |-> 0, run_parts |-> 0, run |-> 0]>>
    /\ pc = "exit"
    /\ file_size \in FileSizes
    /\ args = DefaultArg
    /\ chunk_size_mb = 0
    /\ err = FALSE
    /\ chunk_size = 0
    /\ chunks = 0
    /\ file = [open |-> FALSE, pos |-> 0]
    /\ cur_chunk = 0
    /\ cur_byte = 0
    /\ cur_byte_end = 0
    /\ cur_part_data = NoData
    /\ upload_obj = NoUpload
    /\ part_checksums = <<>>
    /\ bytes_read = 0
    /\ pending = "none"
    /\ raised = "none"
    /\ initiated = 1
    /\ parts = <<>>
    /\ completed = <<>>
    /\ resumes = 0
    /\ loaded = 0
    /\ run_parts = 0
    /\ consumed = {}
    /\ dumps_before = 1
    /\ attempts = <<>>

InitRecord == Init \/ RecordStart

SpecRecord == InitRecord /\ [][Next]_vars

\* ------------------------------------------------------------- properties
RECURSIVE SumLen(_)
\* total number of bytes of the payloads of a sequence of parts
SumLen(ps) == IF ps = <<>> THEN 0 ELSE Head(ps).body.len + SumLen(Tail(ps))

\* the parts the service acknowledged for session id, in order
SessionParts(id) == SelectSeq(parts, LAMBDA p : p.upload_id = id)

\* the parts the service acknowledged in the current run
RunParts == SelectSeq(parts, LAMBDA p : p.run = resumes)

\* the chunk indexes that the keys of a dict or of a json object denote
KeyNumbers(d) == {d[i].k.n : i \in 1..Len(d)}

\* chunk j of a file of S bytes cut in chunks of C bytes
FileChunk(j, S, C) == [off |-> (j - 1) * C, len |-> Min(C, S - (j - 1) * C)]

\* the checksum mapping of an upload of every chunk of the file, in order
FullChecksums(S, C) ==
    [j \in 1..Ceil(S, C) |-> [k |-> IntKey(j), v |-> Checksum(FileChunk(j, S, C))]]

\* C1: whenever upload_part fails on chunk k, the dump file written holds
\* cur_chunk = k-1, cur_byte = the bytes of chunks 1..k-1 and a checksum
\* mapping with exactly the keys 1..k-1 (k-1 parts were acknowledged).
C1_DumpIsAfterLastAckedChunk ==
    \A i \in 1..Len(dumps) :
        pre_dump[i].pending = "RemoteError" =>
            LET acked == pre_dump[i].acked
                C == 1048576 * dumps[i].chunk_size_mb
            IN /\ dumps[i].cur_chunk = acked
               /\ dumps[i].cur_byte = Min(acked * C, file_size)
               /\ KeyNumbers(dumps[i].part_checksums) = 1..acked
               /\ Len(dumps[i].part_checksums) = acked

\* C2: a run resumed from a dump file with byte cursor B uploads as its first
\* part the file bytes from offset B on, and uploads no byte below offset B.
C2_ResumedRunReadsFromCursor ==
    err =>
        LET B == dumps[loaded].cur_byte
            rp == RunParts
        IN /\ rp # <<>> => rp[1].body.off = B
           /\ \A j \in 1..Len(rp) : rp[j].body.off >= B

\* C3: a run that was resumed from a dump file and completed ends with
\* cur_byte = file size, with file size bytes sent to the session, and with
\* the checksum mapping of an uninterrupted run over the same file.
C3_ResumedRunEqualsUninterrupted ==
    (pc = "exit" /\ raised = "none" /\ err) =>
        /\ cur_byte = file_size
        /\ SumLen(SessionParts(upload_obj.id)) = file_size
        /\ part_checksums = FullChecksums(file_size, chunk_size)

\* C4: the job built by the resume branch of __init__ from a dump file has
\* the cur_chunk, the cur_byte and the checksum mapping (keys and values)
\* that the job had when _dump_state wrote the file.
C4_DumpLoadRoundTrip ==
    (pc = "request_upload" /\ err) =>
        /\ cur_chunk = pre_dump[loaded].cur_chunk
        /\ cur_byte = pre_dump[loaded].cur_byte
        /\ part_checksums = pre_dump[loaded].part_checksums

\* C5: when N parts of the session have been acknowledged, in the fresh run
\* or across failed and resumed runs, the checksum mapping has N entries and
\* its keys are the chunk indexes 1..N.
C5_ChecksumKeysAreOneToN ==
    pc \notin {"init", "request_upload"} =>
        LET N == Len(SessionParts(upload_obj.id)) IN
        /\ Len(part_checksums) = N
        /\ KeyNumbers(part_checksums) = 1..N

\* C6: a fresh run that is not interrupted uploads ceil(S/C) parts whose
\* lengths sum to the file size S, the cursor ends at S, every part but the
\* last has C bytes and the last has at most C; the parts are the chunks of
\* the file in order, with their checksums under the keys 1..ceil(S/C).
C6_FreshRunCoversFile ==
    (pc = "finish_upload" /\ ~err) =>
        LET N == Ceil(file_size, chunk_size) IN
        /\ Len(parts) = N
        /\ chunks = N
        /\ SumLen(parts) = file_size
        /\ cur_byte = file_size
        /\ \A j \in 1..(N - 1) : parts[j].body.len = chunk_size
        /\ N > 0 => parts[N].body.len \in 1..chunk_size
        /\ \A j \in 1..N : parts[j].body = FileChunk(j, file_size, chunk_size)
        /\ part_checksums = FullChecksums(file_size, chunk_size)

\* a 10 MiB file was uploaded in parts of 4, 4 and 2 MiB under keys 1, 2, 3
C6_Witness ==
    /\ pc = "finish_upload" /\ ~err
    /\ file_size = 10 * MiB /\ chunk_size = 4 * MiB
    /\ Len(parts) = 3
    /\ parts[1].body.len = 4 * MiB /\ parts[2].body.len = 4 * MiB
    /\ parts[3].body.len = 2 * MiB
    /\ cur_byte = 10485760
    /\ KeyNumbers(part_checksums) = {1, 2, 3}

\* C7: the byte ranges of the parts acknowledged for a session are contiguous
\* and do not overlap: the first starts at 0 and each next one, in the same
\* run or in a resumed run, starts one past the end of the one before.
C7_RangesContiguous ==
    \A id \in 1..initiated :
        LET sp == SessionParts(id) IN
        /\ sp # <<>> => sp[1].range_start = 0
        /\ \A j \in 1..Len(sp) : sp[j].range_start <= sp[j].range_end
        /\ \A j \in 1..(Len(sp) - 1) :
               sp[j + 1].range_start = sp[j].range_end + 1

\* a part of a resumed run follows a part of the run before
C7_Witness ==
    \E j \in 1..(Len(parts) - 1) :
        /\ parts[j].run = 0 /\ parts[j + 1].run = 1
        /\ parts[j + 1].upload_id = parts[j].upload_id
        /\ parts[j + 1].range_start = parts[j].range_end + 1

\* where an exception of the transmitting phase comes from
TransmitErrors == {"IOError", "RemoteError"}

\* C8: every error of the transmitting phase, from upload_part or from the
\* read of a chunk (the first one included), has a dump file written before
\* it reaches the caller.
C8_TransmitErrorIsDumped ==
    (pc = "exit" /\ raised \in TransmitErrors) =>
        Len(dumps) = dumps_before + 1

\* C9: when upload_part fails, the error that reaches the caller of
\* start_upload is the upload_part error, also when _dump_state fails.
C9_OriginalErrorReachesCaller ==
    (pc = "exit" /\ pending = "RemoteError") => raised = "RemoteError"

\* C10: a dump file is written only for an error of the transmitting phase:
\* no file is written while a run is under way, by a run that completes, or
\* by a run that ends with an error of request_upload or finish_upload.
C10_DumpOnlyOnTransmitError ==
    (pc # "exit" \/ raised \in {"none", "InitiateError", "CompleteError"}) =>
        Len(dumps) = dumps_before

\* a resumed run ended with an error of finish_upload and wrote no dump file
C10_Witness ==
    /\ pc = "exit" /\ raised = "CompleteError" /\ err
    /\ dumps_before = 1 /\ Len(dumps) = 1

\* n is a power of two between the least and the greatest chunk size
IsLegalChunkSize(n) ==
    /\ n >= MinChunkSizeMb /\ n <= MaxChunkSizeMb
    /\ \E e \in 0..12 : n = 2 ^ e

\* C11: validate_chunk_size(n) returns n exactly when n is a power of two
\* with 1 <= n <= 4096 and raises a value error for every other integer; 128
\* and 4096 are accepted, 129, 5000 and 0 are rejected, and an accepted value
\* is accepted again.
C11_ValidateChunkSize ==
    pc # "parse_args" =>
        /\ pc = "init" <=> IsLegalChunkSize(args.size)
        /\ pc = "init" =>
              /\ chunk_size_mb = args.size
              /\ ValidateChunkSize(chunk_size_mb).ok
              /\ ValidateChunkSize(chunk_size_mb).value = chunk_size_mb
        /\ pc = "exit" => raised = "ValueError"
        /\ args.size \in {128, 4096} => pc = "init"
        /\ args.size \in {129, 5000, 0} => pc = "exit"

\* the flag 4096 was validated and returned
C11_Witness ==
    pc = "init" /\ args = FlagArg(4096) /\ chunk_size_mb = 4096

\* the complete calls answered in the current run
RunCompleted == SelectSeq(completed, LAMBDA c : c.run = resumes)

\* C12: a resumed run never initiates a session: it is bound to the account,
\* the vault and the upload id of the dump file it was started on, and every
\* part it uploads and its complete call go to that session.
C12_ResumedRunKeepsSession ==
    /\ [](err =>
            LET data == dumps[loaded] IN
            /\ upload_obj = [account_id |-> data.account_id,
                             vault_name |-> data.vault_name,
                             id |-> data.upload_id]
            /\ \A j \in 1..Len(RunParts) :
                   RunParts[j].upload_id = data.upload_id
            /\ \A j \in 1..Len(RunCompleted) :
                   RunCompleted[j].upload_id = data.upload_id)
    /\ [][err' => initiated' = initiated]_vars

\* a resumed run uploaded a part and completed the session of its dump file
C12_Witness ==
    /\ err /\ pc = "exit" /\ raised = "none"
    /\ RunParts # <<>> /\ RunCompleted # <<>>
    /\ RunCompleted[1].upload_id = dumps[loaded].upload_id

\* C13: a dump never writes over a dump file: after any failed and resumed
\* runs there is one file for each dump made, and each file holds what was
\* dumped into it.
C13_DumpNeverOverwrites ==
    /\ Len(dumps) = Len(pre_dump)
    /\ \A i \in 1..Len(pre_dump) :
           /\ i \in DOMAIN dumps
           /\ dumps[i].cur_chunk = pre_dump[i].cur_chunk
           /\ dumps[i].cur_byte = pre_dump[i].cur_byte
           /\ dumps[i].part_checksums = JsonDumpDict(pre_dump[i].part_checksums)

\* two dumps were made, with different contents, and both files exist
C13_Witness ==
    /\ Len(pre_dump) = 2 /\ Len(dumps) = 2
    /\ dumps[1] # dumps[2]
    /\ dumps[1].cur_byte = pre_dump[1].cur_byte

\* C14: in every state of a fresh or resumed run the byte cursor is at most
\* the file size and the chunk index is at most the number of chunks
\* ceil(file size / chunk size).
C14_CursorsWithinFile ==
    /\ cur_byte <= file_size
    /\ cur_chunk <= chunks

\* C15: the file handle opened by __init__ is closed when a run ends, on
\* every exit path: completion, upload_part failure, initiation failure, read
\* failure and failure of the dump.
C15_FileClosedAtExit ==
    pc = "exit" => ~file.open

\* C20: in every state of a fresh or resumed run the checksum under key k of
\* part_checksums is the one answered to the upload_part call whose range
\* starts at (k-1) * chunk_size, and the payload sent with a range start-end
\* is the file bytes at the offsets start..end.
C20_ChecksumsMatchParts ==
    /\ \A i \in 1..Len(part_checksums) :
           \E j \in 1..Len(parts) :
               /\ parts[j].upload_id = upload_obj.id
               /\ parts[j].range_start = (part_checksums[i].k.n - 1) * chunk_size
               /\ parts[j].checksum = part_checksums[i].v
    /\ \A j \in 1..Len(parts) :
           parts[j].body = [off |-> parts[j].range_start,
                            len |-> parts[j].range_end - parts[j].range_start + 1]

\* C16: no job with an illegal chunk size opens the file, initiates or binds
\* a session, or uploads a part, whether the chunk size is the flag, the
\* default or the chunk_size_mb of the dump file the job is rebuilt from.
C16_IllegalChunkSizeDoesNothing ==
    (file.open \/ upload_obj # NoUpload \/ run_parts > 0) =>
        IsLegalChunkSize(chunk_size_mb)

\* the value of cur_chunk when the current run was constructed
StartChunk == IF err THEN dumps[loaded].cur_chunk ELSE 0

\* C17: the run is sequential: a chunk is read only when the upload_part call
\* of the chunk before has returned a checksum, upload_part is called for the
\* chunks in strictly increasing order and at most once for each chunk, and
\* after a call that raised no further call is made.
C17_StrictlySequential ==
    LET reads == cur_chunk - StartChunk IN
    /\ reads - run_parts \in {0, 1}
    /\ pc = "next_chunk" => reads = run_parts
    /\ reads - Len(attempts) \in {0, 1}
    /\ \A j \in 1..Len(attempts) : attempts[j] = StartChunk + j
    /\ Len(attempts) - run_parts \in {0, 1}
    /\ Len(attempts) > run_parts => pc \in {"except", "exit"}
    /\ \A j \in 1..(Len(RunParts) - 1) :
           RunParts[j].body.off < RunParts[j + 1].body.off

\* two parts were acknowledged in order and the call for the third raised
C17_Witness ==
    /\ pc = "except" /\ pending = "RemoteError"
    /\ run_parts = 2 /\ Len(attempts) = 3
    /\ attempts = <<StartChunk + 1, StartChunk + 2, StartChunk + 3>>

\* C18: complete is called at most once in a run, and only when the loop of
\* start_upload ended on an empty read with every chunk read in the run
\* acknowledged; a run that caught an error in start_upload calls neither
\* upload_part nor complete afterwards.
C18_CompleteOnlyAfterCleanLoop ==
    LET reads == cur_chunk - StartChunk IN
    /\ Len(RunCompleted) <= 1
    /\ (pc = "finish_upload" \/ RunCompleted # <<>>) =>
           /\ pending = "none"
           /\ bytes_read = 0
           /\ reads = run_parts
           /\ Len(attempts) = run_parts
           /\ ~file.open
    /\ RunCompleted # <<>> => pc = "exit" /\ raised = "none"
    /\ pending # "none" =>
           /\ pc \in {"except", "exit"}
           /\ RunCompleted = <<>>
           /\ Len(attempts) <= run_parts + 1

\* a run uploaded three parts, read the end of the file and completed
C18_Witness ==
    /\ pc = "exit" /\ raised = "none"
    /\ Len(RunCompleted) = 1 /\ run_parts = 3 /\ bytes_read = 0

\* C19: when every blocking call returns, every run ends (Done or Aborted);
\* the empty read comes after the last chunk of the file, with every chunk
\* read acknowledged, and ends the loop; a run that ends with no error has
\* completed the upload.
C19_RunTerminates ==
    /\ (pc # "exit") ~> (pc = "exit")
    /\ []((pc = "loop" /\ bytes_read = 0) =>
             /\ file.pos = file_size
             /\ cur_chunk - StartChunk = run_parts)
    /\ [][(pc = "loop" /\ bytes_read = 0) => pc' = "finish_upload"]_vars
    /\ []((pc = "exit" /\ raised = "none") =>
             /\ Len(RunCompleted) = 1
             /\ file.pos = file_size
             /\ bytes_read = 0)

\* a fresh run with no failure read the end of a 10 MiB file after its three
\* chunks and is done
C19_Witness ==
    /\ pc = "exit" /\ raised = "none" /\ ~err
    /\ file_size = 10 * MiB /\ chunk_size = 4 * MiB
    /\ run_parts = 3 /\ bytes_read = 0 /\ file.pos = file_size
    /\ Len(RunCompleted) = 1
====
